---- MODULE Spec2Model ----
(***************************************************************************)
(* Model of the streaming-recording pipeline of veille_techno_projet:      *)
(*   - the recording service (sessions map, startSession, pushChunk,       *)
(*     endSession) of src/services/recording.ts,                           *)
(*   - the stream-start / stream-chunk / stream-end IPC handlers of        *)
(*     electron/main.js,                                                   *)
(*   - the record button, dataavailable and stop handlers of the renderer. *)
(*                                                                         *)
(* Both processes are single-threaded event loops: an action is one run of *)
(* a handler (or of the continuation after an await) up to its next await. *)
(* The dynamic import() of an already resolvable service module is taken   *)
(* to succeed and to keep the order of the requests.                       *)
(***************************************************************************)
EXTENDS Integers, Sequences, FiniteSets, TLC

\* ---------------------------------------------------------------- bounds
\* number of stream-start / stream-chunk / stream-end requests of a run
MaxRequests == 5
\* number of events of a run of the renderer: clicks on the record button
\* and slices emitted by the recorder
MaxEvents == 3
\* a stop click follows a record click: at most this many finalizations
MaxStops == MaxEvents \div 2
\* number of 30 ms sleeps that fit in the pending-decode timeout
WaitTicks == 2
\* number of pushes into the live buffer
MaxPushes == 3
\* number of artifact files of a run of endSession calls
MaxArtifacts == 2
\* length of the arrays resampled, channels and frames of the arrays mixed
MaxInputLen == 4
MaxChannels == 3
MaxFrames == 2
\* number of transcribeFile calls of a run
MaxTranscribes == 2

\* renderer: seconds of audio kept for the live view
MAX_LIVE_SECONDS == 6

SessionIds == {"a", "b"}
Texts == {"t1", "t2"}
Bytes == {1, 2}
\* values Date.now() may return (the wall clock is not monotonic)
Times == {0, 1}

\* the payloads of stream-chunk: byte b repeated b times, so that chunks
\* differ in content and in length
RECURSIVE Rep(_, _)
Rep(b, n) == IF n = 0 THEN <<>> ELSE <<b>> \o Rep(b, n - 1)

ChunkSet == {Rep(b, b) : b \in Bytes}

\* ------------------------------------------------------- error messages
ErrNoSession == "Error: session not started"
ErrTranscribe == "Error: ffmpeg exit 1"
ErrWrite == "Error: ENOSPC"

VARIABLES
  sessions,     \* recording.ts: Map sessionId -> chunks
  ends,         \* the stream-end invocations awaiting, in order of arrival
  files,        \* tmpdir: artifact path -> bytes
  sent,         \* 'transcription-result' messages sent to the renderer
  lastResp,     \* the response most recently returned by a handler
  accepted,     \* history: chunks accepted by the session registered under an id
  ended,        \* history: endSession deleted the id and no start came since
  nstart        \* history: number of startSession calls per id

svars == <<sessions, ends, files, sent, lastResp, accepted, ended, nstart>>

\* ------------------------------------------------------------ recording.ts
Has(m, id) == id \in DOMAIN m

MapSet(m, id, v) == [x \in DOMAIN m \cup {id} |-> IF x = id THEN v ELSE m[x]]

MapDelete(m, id) == [x \in DOMAIN m \ {id} |-> m[x]]

\* mutant: a start resets the log of every registered session
startSessionResetsAll(m, id) == [x \in DOMAIN m \cup {id} |-> <<>>]

startSession(m, id) == MapSet(m, id, <<>>)

\* mutant: the chunk is put in front of the log (unshift for push)
pushChunkFront(m, id, c) == MapSet(m, id, <<c>> \o m[id])

pushChunk(m, id, c) == MapSet(m, id, Append(m[id], c))

\* mutant: the chunks are concatenated newest first
RECURSIVE BufferConcatRev(_)
BufferConcatRev(chunks) ==
  IF chunks = <<>> THEN <<>>
  ELSE BufferConcatRev(Tail(chunks)) \o Head(chunks)

RECURSIVE BufferConcat(_)
BufferConcat(chunks) ==
  IF chunks = <<>> THEN <<>>
  ELSE Head(chunks) \o BufferConcat(Tail(chunks))

OutPath(id, t) == <<"vtp_recording", id, t>>

RemoveAt(s, k) == [i \in 1..(Len(s) - 1) |-> IF i < k THEN s[i] ELSE s[i + 1]]

\* ------------------------------------------------------------- responses
\* {ok: true}, {ok: true, text}, {ok: false, error}, tagged with the request
RespOk(op, id) == [op |-> op, id |-> id, ok |-> TRUE, text |-> "", error |-> ""]
RespText(op, id, t) == [op |-> op, id |-> id, ok |-> TRUE, text |-> t, error |-> ""]
RespErr(op, id, e) == [op |-> op, id |-> id, ok |-> FALSE, text |-> "", error |-> e]
NoResp == [op |-> "none", id |-> "", ok |-> FALSE, text |-> "", error |-> ""]

SInit ==
  /\ sessions = <<>>
  /\ ends = <<>>
  /\ files = <<>>
  /\ sent = <<>>
  /\ lastResp = NoResp
  /\ accepted = [id \in SessionIds |-> <<>>]
  /\ ended = [id \in SessionIds |-> FALSE]
  /\ nstart = [id \in SessionIds |-> 0]

\* ipcMain.handle('stream-start'): rec.startSession(sessionId); {ok: true}
OnStreamStart(id) ==
  /\ sessions' = startSession(sessions, id)
  /\ lastResp' = RespOk("start", id)
  /\ accepted' = [accepted EXCEPT ![id] = <<>>]
  /\ ended' = [ended EXCEPT ![id] = FALSE]
  /\ nstart' = [nstart EXCEPT ![id] = @ + 1]
  /\ UNCHANGED <<ends, files, sent>>

\* ipcMain.handle('stream-chunk'): rec.pushChunk(sessionId, arrayBuffer)
OnStreamChunk(id, c) ==
  /\ IF Has(sessions, id)
     THEN /\ sessions' = pushChunk(sessions, id, c)
          /\ lastResp' = RespOk("chunk", id)
          /\ accepted' = [accepted EXCEPT ![id] = Append(@, c)]
     ELSE /\ lastResp' = RespErr("chunk", id, ErrNoSession)
          /\ UNCHANGED <<sessions, accepted>>
  /\ UNCHANGED <<ends, files, sent, ended, nstart>>

\* a stream-end invocation that awaits: the locals of endSession, the step it
\* waits for, the number of calls of transcribeFile it made, the renderer
\* handler that awaits the response, and (history) snap, the chunks that had
\* been accepted when endSession was called, and gen, the number of the
\* startSession that created the session it found
EndCall(id, buf, path, snap, caller) ==
  [id |-> id, pc |-> "write", buf |-> buf, path |-> path, invoked |-> 0,
   snap |-> snap, caller |-> caller, gen |-> nstart[id]]

\* ipcMain.handle('stream-end') and endSession up to `await fs.writeFile`
OnStreamEnd(id, t, caller) ==
  /\ IF Has(sessions, id)
     THEN /\ ends' = Append(ends, EndCall(id, BufferConcat(sessions[id]),
                                          OutPath(id, t), accepted[id], caller))
          /\ UNCHANGED lastResp
     ELSE /\ lastResp' = RespErr("end", id, ErrNoSession)
          /\ UNCHANGED ends
  /\ UNCHANGED <<sessions, files, sent, accepted, ended, nstart>>

\* mutant: the cleanup `sessions.delete(sessionId)` is forgotten
OnWriteOkNoDelete(k) ==
  /\ k \in DOMAIN ends
  /\ ends[k].pc = "write"
  /\ files' = MapSet(files, ends[k].path, ends[k].buf)
  /\ ends' = [ends EXCEPT ![k].pc = "transcribe", ![k].invoked = @ + 1,
                          ![k].buf = <<>>, ![k].snap = <<>>]
  /\ ended' = [ended EXCEPT ![ends[k].id] = TRUE]
  /\ UNCHANGED <<sessions, accepted, sent, lastResp, nstart>>

\* fs.writeFile resolved: sessions.delete, then mod.transcribeFile(outPath)
OnWriteOk(k) ==
  /\ k \in DOMAIN ends
  /\ ends[k].pc = "write"
  /\ files' = MapSet(files, ends[k].path, ends[k].buf)
  /\ sessions' = MapDelete(sessions, ends[k].id)
  /\ ends' = [ends EXCEPT ![k].pc = "transcribe", ![k].invoked = @ + 1,
                          ![k].buf = <<>>, ![k].snap = <<>>]
  /\ accepted' = [accepted EXCEPT ![ends[k].id] = <<>>]
  /\ ended' = [ended EXCEPT ![ends[k].id] = TRUE]
  /\ UNCHANGED <<sent, lastResp, nstart>>

\* fs.writeFile rejected: endSession rejects, the handler answers the error
OnWriteFail(k) ==
  /\ k \in DOMAIN ends
  /\ ends[k].pc = "write"
  /\ ends' = RemoveAt(ends, k)
  /\ lastResp' = RespErr("end", ends[k].id, ErrWrite)
  /\ UNCHANGED <<sessions, files, sent, accepted, ended, nstart>>

\* mutant: without the inner try/catch a notification that cannot be
\* delivered turns the answer into an error
OnTranscribeOkNotifyFatal(k, t, win) ==
  /\ k \in DOMAIN ends
  /\ ends[k].pc = "transcribe"
  /\ sent' = IF win THEN Append(sent, [sessionId |-> ends[k].id, text |-> t])
             ELSE sent
  /\ ends' = RemoveAt(ends, k)
  /\ lastResp' = IF win THEN RespText("end", ends[k].id, t)
                 ELSE RespErr("end", ends[k].id, "Error: Object has been destroyed")
  /\ UNCHANGED <<sessions, files, accepted, ended, nstart>>

\* transcribeFile resolved: webContents.send if a window exists, {ok, text}
OnTranscribeOk(k, t, win) ==
  /\ k \in DOMAIN ends
  /\ ends[k].pc = "transcribe"
  /\ sent' = IF win THEN Append(sent, [sessionId |-> ends[k].id, text |-> t])
             ELSE sent
  /\ ends' = RemoveAt(ends, k)
  /\ lastResp' = RespText("end", ends[k].id, t)
  /\ UNCHANGED <<sessions, files, accepted, ended, nstart>>

\* mutant: the error of transcribeFile is swallowed and an empty transcript
\* is answered and notified
OnTranscribeFailSwallowed(k) ==
  /\ k \in DOMAIN ends
  /\ ends[k].pc = "transcribe"
  /\ sent' = Append(sent, [sessionId |-> ends[k].id, text |-> ""])
  /\ ends' = RemoveAt(ends, k)
  /\ lastResp' = RespText("end", ends[k].id, "")
  /\ UNCHANGED <<sessions, files, accepted, ended, nstart>>

\* transcribeFile rejected (transcoder or transcriber): {ok: false, error}
OnTranscribeFail(k) ==
  /\ k \in DOMAIN ends
  /\ ends[k].pc = "transcribe"
  /\ ends' = RemoveAt(ends, k)
  /\ lastResp' = RespErr("end", ends[k].id, ErrTranscribe)
  /\ UNCHANGED <<sessions, files, sent, accepted, ended, nstart>>


\* ================================================================ renderer
VARIABLES
  mediaRecorder,      \* mediaRecorder.state ("inactive" also when null)
  currentSessionId,   \* "" when null
  clickPc,            \* the record-button handler that is starting a recording
  nev,                \* history: number of clicks and slices so far
  slices,             \* the dataavailable handlers, by slice number: their step
  pendingDecodes,
  audioCtxCapture,    \* non-null
  audioWorkletNode,   \* non-null
  capLoading,         \* startAudioCaptureIfNeeded calls awaiting addModule
  liveChunks,
  liveSampleRate,
  fins,               \* the onstop handlers, in order of the stop events
  recStatus,          \* text of the status element
  transcriptEl,       \* text of the transcript element
  ipc,                \* invoke() requests on their way to the main process
  nreq                \* history: requests made by the arbitrary client

\* the live buffer and the pure functions, called on their own
VARIABLES
  pushLog,            \* history: length and rate of every live-buffer push
  snapshot,           \* what concatLiveSamples returned last
  call,               \* the last call of a pure function and its result
  written             \* artifact path -> session id of the endSession that wrote it

\* history of the recordings of a run, and the length of the run
VARIABLES
  recs,               \* history: the session id made for each MediaRecorder
  sliceRec,           \* history: by slice number, the recorder that emitted it
  sentTo,             \* history: slice number -> id given to sendStreamChunk
  budget              \* number of clicks and slices the run may have

hvars == <<recs, sliceRec, sentTo, budget>>

\* transcribe.ts, called on its own
VARIABLES
  tcalls,             \* the transcribeFile calls, in order of their start
  tmpfs               \* tmpdir: path of a transcoded WAV -> its content

tvars == <<tcalls, tmpfs>>

lvars == <<pushLog, snapshot, call, written, hvars, tvars>>

rvars == <<mediaRecorder, currentSessionId, clickPc, nev, slices,
           pendingDecodes, audioCtxCapture, audioWorkletNode, capLoading,
           liveChunks, liveSampleRate, fins, recStatus, transcriptEl, ipc>>

vars == <<svars, rvars, nreq, lvars>>

\* the encoded slice number n, and what decodeAudioData makes of it
Slice(n) == Rep(n, n)
DecodedRates == {4}
Decoded(n) == <<n>>

Max(a, b) == IF a >= b THEN a ELSE b

\* the trim of the live buffer after a push (dataavailable handler)
RECURSIVE DropOldest(_, _, _)
DropOldest(chunks, total, maxSamples) ==
  IF Len(chunks) > 0 /\ total > maxSamples
  THEN DropOldest(Tail(chunks), total - Len(Head(chunks)), maxSamples)
  ELSE chunks

RECURSIVE TrimFrom(_, _, _, _)
TrimFrom(chunks, i, total, maxSamples) ==
  IF i < 1 THEN chunks
  ELSE LET t == total + Len(chunks[i])
       IN IF t > maxSamples THEN DropOldest(chunks, t, maxSamples)
          ELSE TrimFrom(chunks, i - 1, t, maxSamples)

TrimLive(chunks, rate) == TrimFrom(chunks, Len(chunks), 0, MAX_LIVE_SECONDS * rate)

RInit ==
  /\ mediaRecorder = "inactive"
  /\ currentSessionId = ""
  /\ clickPc = "idle"
  /\ nev = 0
  /\ slices = <<>>
  /\ pendingDecodes = 0
  /\ audioCtxCapture = FALSE
  /\ audioWorkletNode = FALSE
  /\ capLoading = 0
  /\ liveChunks = <<>>
  /\ liveSampleRate = 16000
  /\ fins = <<>>
  /\ recStatus = "Idle"
  /\ transcriptEl = ""
  /\ ipc = <<>>

NoCall == [fn |-> "none"]

LInit ==
  /\ pushLog = <<>>
  /\ snapshot = <<>>
  /\ call = NoCall
  /\ written = <<>>
  /\ recs = <<>>
  /\ sliceRec = <<>>
  /\ sentTo = <<>>
  /\ tcalls = <<>>
  /\ tmpfs = <<>>

Init == SInit /\ RInit /\ LInit /\ nreq = 0 /\ budget = MaxEvents

Request(op, id, n) == [op |-> op, id |-> id, n |-> n]

\* record button, no recording active: await getUserMedia
ClickRecord ==
  /\ mediaRecorder = "inactive"
  /\ clickPc = "idle"
  /\ nev < budget
  /\ nev' = nev + 1
  /\ clickPc' = "getUserMedia"
  /\ UNCHANGED <<mediaRecorder, currentSessionId, slices, pendingDecodes,
                 audioCtxCapture, audioWorkletNode, capLoading, liveChunks,
                 liveSampleRate, fins, recStatus, transcriptEl, ipc>>
  /\ UNCHANGED <<svars, nreq, lvars>>

\* getUserMedia resolved: new MediaRecorder, currentSessionId, startStream;
\* or rejected: the catch of the click handler
GotUserMedia(ok, id) ==
  /\ clickPc = "getUserMedia"
  /\ IF ok
     THEN /\ currentSessionId' = id
          /\ ipc' = Append(ipc, Request("start", id, 0))
          /\ clickPc' = "startStream"
          /\ recs' = Append(recs, id)
     ELSE /\ clickPc' = "idle"
          /\ UNCHANGED <<currentSessionId, ipc, recs>>
  /\ UNCHANGED <<mediaRecorder, nev, slices, pendingDecodes, audioCtxCapture,
                 audioWorkletNode, capLoading, liveChunks, liveSampleRate,
                 fins, recStatus, transcriptEl>>
  /\ UNCHANGED <<svars, nreq, pushLog, snapshot, call, written, tvars>>
  /\ UNCHANGED <<sliceRec, sentTo, budget>>

\* startStream answered: the handlers are installed, mediaRecorder.start(250);
\* onstart: status, live buffer reset, startAudioCaptureIfNeeded up to its
\* await of addModule
RecorderStarted ==
  /\ clickPc = "started"
  /\ clickPc' = "idle"
  /\ mediaRecorder' = "recording"
  /\ recStatus' = "Recording..."
  /\ liveChunks' = <<>>
  /\ IF audioCtxCapture
     THEN UNCHANGED <<audioCtxCapture, capLoading>>
     ELSE audioCtxCapture' = TRUE /\ capLoading' = capLoading + 1
  /\ UNCHANGED <<currentSessionId, nev, slices, pendingDecodes,
                 audioWorkletNode, liveSampleRate, fins, transcriptEl, ipc>>
  /\ UNCHANGED <<svars, nreq, lvars>>

\* mutant: a capture failure stops the recorder
CaptureLoadedFailureStops(ok) ==
  /\ capLoading > 0
  /\ capLoading' = capLoading - 1
  /\ IF ok /\ audioCtxCapture
     THEN audioWorkletNode' = TRUE /\ UNCHANGED <<audioCtxCapture, mediaRecorder>>
     ELSE /\ audioWorkletNode' = FALSE
          /\ audioCtxCapture' = FALSE
          /\ mediaRecorder' = "inactive"
  /\ UNCHANGED <<currentSessionId, clickPc, nev, slices,
                 pendingDecodes, liveChunks, liveSampleRate, fins, recStatus,
                 transcriptEl, ipc>>
  /\ UNCHANGED <<svars, nreq, lvars>>

\* startAudioCaptureIfNeeded after addModule: the worklet node is created and
\* connected, or the catch cleans up
CaptureLoaded(ok) ==
  /\ capLoading > 0
  /\ capLoading' = capLoading - 1
  /\ IF ok /\ audioCtxCapture
     THEN audioWorkletNode' = TRUE /\ UNCHANGED audioCtxCapture
     ELSE audioWorkletNode' = FALSE /\ audioCtxCapture' = FALSE
  /\ UNCHANGED <<mediaRecorder, currentSessionId, clickPc, nev, slices,
                 pendingDecodes, liveChunks, liveSampleRate, fins, recStatus,
                 transcriptEl, ipc>>
  /\ UNCHANGED <<svars, nreq, lvars>>

\* the recorder emits a non-empty slice: ondataavailable up to its await of
\* e.data.arrayBuffer()
DataAvailable ==
  /\ mediaRecorder = "recording"
  /\ nev < budget
  /\ nev' = nev + 1
  /\ slices' = Append(slices, "convert")
  /\ sliceRec' = Append(sliceRec, Len(recs))
  /\ UNCHANGED <<mediaRecorder, currentSessionId, clickPc,
                 pendingDecodes, audioCtxCapture, audioWorkletNode, capLoading,
                 liveChunks, liveSampleRate, fins, recStatus, transcriptEl, ipc>>
  /\ UNCHANGED <<svars, nreq, pushLog, snapshot, call, written, tvars>>
  /\ UNCHANGED <<recs, sentTo, budget>>

\* arrayBuffer() of slice n resolved: sendStreamChunk(currentSessionId, ab)
SliceConverted(n) ==
  /\ n \in DOMAIN slices
  /\ slices[n] = "convert"
  /\ slices' = [slices EXCEPT ![n] = "send"]
  /\ ipc' = Append(ipc, Request("chunk", currentSessionId, n))
  /\ sentTo' = MapSet(sentTo, n, currentSessionId)
  /\ UNCHANGED <<mediaRecorder, currentSessionId, clickPc, nev,
                 pendingDecodes, audioCtxCapture, audioWorkletNode, capLoading,
                 liveChunks, liveSampleRate, fins, recStatus, transcriptEl>>
  /\ UNCHANGED <<svars, nreq, pushLog, snapshot, call, written, tvars>>
  /\ UNCHANGED <<recs, sliceRec, budget>>

\* mutant: the slice is decoded for the live view whatever the strategy
SliceSentDecodesAlways(n) ==
  /\ n \in DOMAIN slices
  /\ slices[n] = "answered"
  /\ slices' = [slices EXCEPT ![n] = "decode"]
  /\ pendingDecodes' = pendingDecodes + 1
  /\ UNCHANGED <<mediaRecorder, currentSessionId, clickPc, nev,
                 audioCtxCapture, audioWorkletNode, capLoading, liveChunks,
                 liveSampleRate, fins, recStatus, transcriptEl, ipc>>
  /\ UNCHANGED <<svars, nreq, lvars>>

\* sendStreamChunk of slice n answered: with a worklet node the handler
\* returns, else pendingDecodes++ and decodeArrayBufferToFloat32 is awaited
SliceSent(n) ==
  /\ n \in DOMAIN slices
  /\ slices[n] = "answered"
  /\ IF audioWorkletNode
     THEN slices' = [slices EXCEPT ![n] = "done"] /\ UNCHANGED pendingDecodes
     ELSE /\ slices' = [slices EXCEPT ![n] = "decode"]
          /\ pendingDecodes' = pendingDecodes + 1
  /\ UNCHANGED <<mediaRecorder, currentSessionId, clickPc, nev,
                 audioCtxCapture, audioWorkletNode, capLoading, liveChunks,
                 liveSampleRate, fins, recStatus, transcriptEl, ipc>>
  /\ UNCHANGED <<svars, nreq, lvars>>

\* the decode of slice n resolved: push into the live buffer, trim, finally
SliceDecoded(n, rate) ==
  /\ n \in DOMAIN slices
  /\ slices[n] = "decode"
  /\ slices' = [slices EXCEPT ![n] = "done"]
  /\ liveSampleRate' = rate
  /\ liveChunks' = TrimLive(Append(liveChunks, Decoded(n)), rate)
  /\ pendingDecodes' = Max(0, pendingDecodes - 1)
  /\ UNCHANGED <<mediaRecorder, currentSessionId, clickPc, nev,
                 audioCtxCapture, audioWorkletNode, capLoading, fins,
                 recStatus, transcriptEl, ipc>>
  /\ UNCHANGED <<svars, nreq, lvars>>

\* mutant: a decode failure stops the recorder
SliceDecodeFailedAborts(n) ==
  /\ n \in DOMAIN slices
  /\ slices[n] = "decode"
  /\ slices' = [slices EXCEPT ![n] = "done"]
  /\ pendingDecodes' = Max(0, pendingDecodes - 1)
  /\ mediaRecorder' = "inactive"
  /\ UNCHANGED <<currentSessionId, clickPc, nev,
                 audioCtxCapture, audioWorkletNode, capLoading, liveChunks,
                 liveSampleRate, fins, recStatus, transcriptEl, ipc>>
  /\ UNCHANGED <<svars, nreq, lvars>>

\* mutant: the count is released at the end of the try block, not in finally
SliceDecodeFailedNoRelease(n) ==
  /\ n \in DOMAIN slices
  /\ slices[n] = "decode"
  /\ slices' = [slices EXCEPT ![n] = "done"]
  /\ UNCHANGED <<mediaRecorder, currentSessionId, clickPc, nev, pendingDecodes,
                 audioCtxCapture, audioWorkletNode, capLoading, liveChunks,
                 liveSampleRate, fins, recStatus, transcriptEl, ipc>>
  /\ UNCHANGED <<svars, nreq, lvars>>

\* the decode of slice n rejected: catch, finally
SliceDecodeFailed(n) ==
  /\ n \in DOMAIN slices
  /\ slices[n] = "decode"
  /\ slices' = [slices EXCEPT ![n] = "done"]
  /\ pendingDecodes' = Max(0, pendingDecodes - 1)
  /\ UNCHANGED <<mediaRecorder, currentSessionId, clickPc, nev,
                 audioCtxCapture, audioWorkletNode, capLoading, liveChunks,
                 liveSampleRate, fins, recStatus, transcriptEl, ipc>>
  /\ UNCHANGED <<svars, nreq, lvars>>

\* an onstop handler: the step it waits at, the response of endStream, and
\* the number of sleeps of waitForPendingDecodes
Fin(pc) == [pc |-> pc, resp |-> NoResp, waited |-> 0]

\* record button while recording: mediaRecorder.stop(); the recorder emits
\* its last slice (when it holds data) and then the stop event: onstop up to
\* its await of endStream(currentSessionId)
ClickStop(last) ==
  /\ mediaRecorder = "recording"
  /\ nev + (IF last THEN 1 ELSE 0) < budget
  /\ nev' = nev + (IF last THEN 2 ELSE 1)
  /\ mediaRecorder' = "inactive"
  /\ slices' = IF last THEN Append(slices, "convert") ELSE slices
  /\ sliceRec' = IF last THEN Append(sliceRec, Len(recs)) ELSE sliceRec
  /\ recStatus' = "Finalizing..."
  /\ fins' = Append(fins, Fin("endStream"))
  /\ ipc' = Append(ipc, Request("end", currentSessionId, Len(fins) + 1))
  /\ UNCHANGED <<currentSessionId, clickPc, pendingDecodes,
                 audioCtxCapture, audioWorkletNode, capLoading, liveChunks,
                 liveSampleRate, transcriptEl>>
  /\ UNCHANGED <<svars, nreq, pushLog, snapshot, call, written, tvars>>
  /\ UNCHANGED <<recs, sentTo, budget>>

\* endStream answered: an error is shown; finally: await sleep(300)
FinAnswered(j) ==
  /\ j \in DOMAIN fins
  /\ fins[j].pc = "answered"
  /\ fins' = [fins EXCEPT ![j].pc = "grace"]
  /\ transcriptEl' = IF fins[j].resp.ok THEN transcriptEl ELSE fins[j].resp.error
  /\ UNCHANGED <<mediaRecorder, currentSessionId, clickPc, nev, slices,
                 pendingDecodes, audioCtxCapture, audioWorkletNode, capLoading,
                 liveChunks, liveSampleRate, recStatus, ipc>>
  /\ UNCHANGED <<svars, nreq, lvars>>

\* sleep(300) over: waitForPendingDecodes(1200) is entered
FinGraceOver(j) ==
  /\ j \in DOMAIN fins
  /\ fins[j].pc = "grace"
  /\ fins' = [fins EXCEPT ![j].pc = "wait"]
  /\ UNCHANGED <<mediaRecorder, currentSessionId, clickPc, nev, slices,
                 pendingDecodes, audioCtxCapture, audioWorkletNode, capLoading,
                 liveChunks, liveSampleRate, recStatus, transcriptEl, ipc>>
  /\ UNCHANGED <<svars, nreq, lvars>>

\* mutant: waitForPendingDecodes without its timeout
WaitGoesOnNoTimeout(j) == pendingDecodes > 0

\* the loop condition of waitForPendingDecodes
WaitGoesOn(j) == pendingDecodes > 0 /\ fins[j].waited < WaitTicks

\* one `await sleep(30)` of waitForPendingDecodes (the elapsed time is
\* counted in sleeps, up to the timeout)
FinWaitSleep(j) ==
  /\ j \in DOMAIN fins
  /\ fins[j].pc = "wait"
  /\ WaitGoesOn(j)
  /\ fins' = [fins EXCEPT ![j].waited = IF @ < WaitTicks THEN @ + 1 ELSE @]
  /\ UNCHANGED <<mediaRecorder, currentSessionId, clickPc, nev, slices,
                 pendingDecodes, audioCtxCapture, audioWorkletNode, capLoading,
                 liveChunks, liveSampleRate, recStatus, transcriptEl, ipc>>
  /\ UNCHANGED <<svars, nreq, lvars>>

\* waitForPendingDecodes returned: the final draws, status Idle,
\* currentSessionId = null, stopAudioCaptureIfNeeded, stopLiveDrawing
FinDone(j) ==
  /\ j \in DOMAIN fins
  /\ fins[j].pc = "wait"
  /\ ~WaitGoesOn(j)
  /\ fins' = [fins EXCEPT ![j].pc = "done"]
  /\ recStatus' = "Idle"
  /\ currentSessionId' = ""
  /\ audioWorkletNode' = FALSE
  /\ audioCtxCapture' = FALSE
  /\ UNCHANGED <<mediaRecorder, clickPc, nev, slices, pendingDecodes,
                 capLoading, liveChunks, liveSampleRate, transcriptEl, ipc>>
  /\ UNCHANGED <<svars, nreq, lvars>>

\* the onTranscription callback of the renderer
OnTranscription ==
  /\ sent # <<>>
  /\ sent' = Tail(sent)
  /\ transcriptEl' = Head(sent).text
  /\ recStatus' = "Idle"
  /\ UNCHANGED <<sessions, ends, files, lastResp, accepted, ended, nstart>>
  /\ UNCHANGED <<mediaRecorder, currentSessionId, clickPc, nev, slices,
                 pendingDecodes, audioCtxCapture, audioWorkletNode, capLoading,
                 liveChunks, liveSampleRate, fins, ipc>>
  /\ UNCHANGED <<nreq, lvars>>

\* ----------------------------------------- main process, requests from ipc
\* the response of a stream-end reaches the onstop handler that awaits it
Answer(j, resp) == [fins EXCEPT ![j].pc = "answered", ![j].resp = resp]

IpcStreamStart ==
  /\ ipc # <<>>
  /\ Head(ipc).op = "start"
  /\ OnStreamStart(Head(ipc).id)
  /\ ipc' = Tail(ipc)
  /\ clickPc' = "started"
  /\ UNCHANGED <<mediaRecorder, currentSessionId, nev, slices, pendingDecodes,
                 audioCtxCapture, audioWorkletNode, capLoading, liveChunks,
                 liveSampleRate, fins, recStatus, transcriptEl, nreq, lvars>>

IpcStreamChunk ==
  /\ ipc # <<>>
  /\ Head(ipc).op = "chunk"
  /\ OnStreamChunk(Head(ipc).id, Slice(Head(ipc).n))
  /\ ipc' = Tail(ipc)
  /\ slices' = [slices EXCEPT ![Head(ipc).n] = "answered"]
  /\ UNCHANGED <<mediaRecorder, currentSessionId, clickPc, nev,
                 pendingDecodes, audioCtxCapture, audioWorkletNode, capLoading,
                 liveChunks, liveSampleRate, fins, recStatus, transcriptEl, nreq, lvars>>

IpcStreamEnd(t) ==
  /\ ipc # <<>>
  /\ Head(ipc).op = "end"
  /\ OnStreamEnd(Head(ipc).id, t, Head(ipc).n)
  /\ ipc' = Tail(ipc)
  /\ fins' = IF Has(sessions, Head(ipc).id) THEN fins
             ELSE Answer(Head(ipc).n, lastResp')
  /\ UNCHANGED <<mediaRecorder, currentSessionId, clickPc, nev, slices,
                 pendingDecodes, audioCtxCapture, audioWorkletNode, capLoading,
                 liveChunks, liveSampleRate, recStatus, transcriptEl, nreq, lvars>>

IpcWriteOk(k) ==
  /\ OnWriteOk(k)
  /\ UNCHANGED <<rvars, nreq, lvars>>

IpcWriteFail(k) ==
  /\ OnWriteFail(k)
  /\ fins' = Answer(ends[k].caller, lastResp')
  /\ UNCHANGED <<mediaRecorder, currentSessionId, clickPc, nev, slices,
                 pendingDecodes, audioCtxCapture, audioWorkletNode, capLoading,
                 liveChunks, liveSampleRate, recStatus, transcriptEl, ipc, nreq, lvars>>

IpcTranscribeOk(k, t, win) ==
  /\ OnTranscribeOk(k, t, win)
  /\ fins' = Answer(ends[k].caller, lastResp')
  /\ UNCHANGED <<mediaRecorder, currentSessionId, clickPc, nev, slices,
                 pendingDecodes, audioCtxCapture, audioWorkletNode, capLoading,
                 liveChunks, liveSampleRate, recStatus, transcriptEl, ipc, nreq, lvars>>

IpcTranscribeFail(k) ==
  /\ OnTranscribeFail(k)
  /\ fins' = Answer(ends[k].caller, lastResp')
  /\ UNCHANGED <<mediaRecorder, currentSessionId, clickPc, nev, slices,
                 pendingDecodes, audioCtxCapture, audioWorkletNode, capLoading,
                 liveChunks, liveSampleRate, recStatus, transcriptEl, ipc, nreq, lvars>>

MainStep ==
  \/ IpcStreamStart
  \/ IpcStreamChunk
  \/ \E t \in Times : IpcStreamEnd(t)

WriteReturns(k) == IpcWriteOk(k) \/ IpcWriteFail(k)

TranscribeReturns(k) ==
  \/ \E t \in Texts, win \in BOOLEAN : IpcTranscribeOk(k, t, win)
  \/ IpcTranscribeFail(k)

FinStep(j) == FinAnswered(j) \/ FinGraceOver(j) \/ FinWaitSleep(j) \/ FinDone(j)

PipeNext ==
  \/ ClickRecord
  \/ \E ok \in BOOLEAN, id \in SessionIds : GotUserMedia(ok, id)
  \/ RecorderStarted
  \/ \E ok \in BOOLEAN : CaptureLoaded(ok)
  \/ DataAvailable
  \/ \E n \in 1..budget : SliceConverted(n)
  \/ \E n \in 1..budget : SliceSent(n)
  \/ \E n \in 1..budget, rate \in DecodedRates : SliceDecoded(n, rate)
  \/ \E n \in 1..budget : SliceDecodeFailed(n)
  \/ \E last \in BOOLEAN : ClickStop(last)
  \/ \E j \in 1..(budget \div 2) : FinStep(j)
  \/ OnTranscription
  \/ MainStep
  \/ \E k \in 1..(budget \div 2) : WriteReturns(k)
  \/ \E k \in 1..(budget \div 2) : TranscribeReturns(k)

\* the recorder, the IPC handlers and the service together
PipeSpec == Init /\ [][PipeNext]_vars

\* timers fire, the main process handles the requests it received, and the
\* file system and the transcribe service return or fail; nothing is assumed
\* of the user, of the recorder, or of the decodes of the renderer
PipeFair ==
  /\ WF_vars(MainStep)
  /\ WF_vars(\E k \in 1..MaxStops : WriteReturns(k))
  /\ WF_vars(\E k \in 1..MaxStops : TranscribeReturns(k))
  /\ WF_vars(\E j \in 1..MaxStops : FinStep(j))

PipeLive == PipeSpec /\ PipeFair

\* ------------------------------------------- the service under any client
StreamStart(id) ==
  /\ nreq < MaxRequests
  /\ nreq' = nreq + 1
  /\ OnStreamStart(id)
  /\ UNCHANGED <<rvars, lvars>>

StreamChunk(id, c) ==
  /\ nreq < MaxRequests
  /\ nreq' = nreq + 1
  /\ OnStreamChunk(id, c)
  /\ UNCHANGED <<rvars, lvars>>

StreamEnd(id, t) ==
  /\ nreq < MaxRequests
  /\ nreq' = nreq + 1
  /\ OnStreamEnd(id, t, 0)
  /\ UNCHANGED <<rvars, lvars>>

WriteOk(k) == OnWriteOk(k) /\ UNCHANGED <<rvars, nreq, lvars>>

WriteFail(k) == OnWriteFail(k) /\ UNCHANGED <<rvars, nreq, lvars>>

TranscribeOk(k, t, win) == OnTranscribeOk(k, t, win) /\ UNCHANGED <<rvars, nreq, lvars>>

TranscribeFail(k) == OnTranscribeFail(k) /\ UNCHANGED <<rvars, nreq, lvars>>

Next ==
  \/ \E id \in SessionIds : StreamStart(id)
  \/ \E id \in SessionIds, c \in ChunkSet : StreamChunk(id, c)
  \/ \E id \in SessionIds, t \in Times : StreamEnd(id, t)
  \/ \E k \in 1..MaxRequests : WriteOk(k)
  \/ \E k \in 1..MaxRequests : WriteFail(k)
  \/ \E k \in 1..MaxRequests, t \in Texts, win \in BOOLEAN : TranscribeOk(k, t, win)
  \/ \E k \in 1..MaxRequests : TranscribeFail(k)

Spec == Init /\ [][Next]_vars

\* ---------------------------------------------------- the pure functions
\* a run is one call of a function on some input (and, for a resampling,
\* the call that resamples its result back)
\* sample arrays given to resampleFloat32Array, the rates, and the value
\* the audio engine renders (the code fixes the length, not the content)
RampInputs == {[i \in 1..n |-> i] : n \in 0..MaxInputLen}
Rates == {1, 2, 3, 160, 441}
RenderedValues == {0, 1}

\* mutant: Math.floor for Math.ceil
FloorDiv(a, b) == a \div b

\* Math.ceil(a / b) for a >= 0 and b > 0
CeilDiv(a, b) == (a + b - 1) \div b

\* `const length = Math.ceil(input.length * dstRate / srcRate)`
ResampledLength(n, srcRate, dstRate) == CeilDiv(n * dstRate, srcRate)

\* the buffer of `length` frames that startRendering resolves with
Rendered(length, y) == [i \in 1..length |-> y]

\* mutant: no shortcut for equal rates, the input is always rendered anew
resampleAlwaysRendered(input, srcRate, dstRate, y) ==
  Rendered(ResampledLength(Len(input), srcRate, dstRate), y)

\* resampleFloat32Array; y is what the audio engine renders
resampleFloat32Array(input, srcRate, dstRate, y) ==
  IF srcRate = dstRate THEN input
  ELSE Rendered(ResampledLength(Len(input), srcRate, dstRate), y)

\* a call of resampleFloat32Array at rates r1 -> r2
ResampleCall(input, r1, r2, y) ==
  /\ call = NoCall
  /\ call' = [fn |-> "resample", input |-> input, r1 |-> r1, r2 |-> r2,
              out |-> resampleFloat32Array(input, r1, r2, y),
              n |-> Len(input)]
  /\ UNCHANGED <<svars, rvars, nreq, pushLog, snapshot, written, hvars, tvars>>

\* its result resampled back, r2 -> r1; n stays the first input's length
ResampleBackCall(y) ==
  /\ call.fn = "resample"
  /\ call' = [fn |-> "roundtrip", input |-> call.out, r1 |-> call.r1,
              r2 |-> call.r2,
              out |-> resampleFloat32Array(call.out, call.r2, call.r1, y),
              n |-> call.n]
  /\ UNCHANGED <<svars, rvars, nreq, pushLog, snapshot, written, hvars, tvars>>

\* sample values are fractions: the division by the channel count is exact
Frac(num, den) == [num |-> num, den |-> den]
SampleValues == {Frac(1, 1), Frac(3, 1)}

\* the channel arrays: C channels of N frames each
ChannelArrays ==
  UNION {[1..c -> [1..n -> SampleValues]] :
           c \in 1..MaxChannels, n \in 0..MaxFrames}

\* `(d[i] ?? 0)` summed over the channels
RECURSIVE SumAt(_, _)
SumAt(channelData, i) ==
  IF channelData = <<>> THEN 0
  ELSE (IF i <= Len(Head(channelData)) THEN Head(channelData)[i].num ELSE 0)
         + SumAt(Tail(channelData), i)

\* mutant: the sum of the channels is not divided by their number
mixdownNoDivide(numberOfChannels, length, channelData) ==
  IF numberOfChannels = 0 \/ length = 0 THEN <<>>
  ELSE [i \in 1..length |-> Frac(SumAt(channelData, i), 1)]

\* mixdown(audioBuffer), renderer
mixdown(numberOfChannels, length, channelData) ==
  IF numberOfChannels = 0 \/ length = 0 THEN <<>>
  ELSE [i \in 1..length |-> Frac(SumAt(channelData, i), numberOfChannels)]

\* mixdownChannels(channelData), transcription service
mixdownChannels(channelData) ==
  IF Len(channelData) = 0 THEN <<>>
  ELSE IF Len(channelData) = 1 THEN channelData[1]
  ELSE [i \in 1..Len(channelData[1]) |->
          Frac(SumAt(channelData, i), Len(channelData))]

\* both mixdowns on the same channels; an AudioBuffer without channels
\* still has a length
MixdownCall(channelData, length) ==
  /\ call = NoCall
  /\ channelData # <<>> => length = Len(channelData[1])
  /\ call' = [fn |-> "mixdown", channelData |-> channelData, length |-> length,
              out |-> mixdown(Len(channelData), length, channelData),
              outChannels |-> mixdownChannels(channelData)]
  /\ UNCHANGED <<svars, rvars, nreq, pushLog, snapshot, written, hvars, tvars>>

FnNext ==
  \/ \E input \in RampInputs, r1 \in Rates, r2 \in Rates, y \in RenderedValues :
       ResampleCall(input, r1, r2, y)
  \/ \E y \in RenderedValues : ResampleBackCall(y)
  \/ \E channelData \in ChannelArrays \cup {<<>>}, length \in 0..MaxFrames :
       MixdownCall(channelData, length)

FnSpec == Init /\ [][FnNext]_vars

\* ----------------------------------------------------- the artifact path
\* session ids and timestamps as the characters the template string is
\* made of; stream-end takes any string for sessionId
PathIds ==
  { <<"a">>, <<"b">>, <<"a", "_", "1">>,
    <<"a", "/", ".", ".", "/">>, <<"b", "/", ".", ".", "/">> }
PathTimes == {1, 2, 12}

DigitChar(d) == <<"0", "1", "2", "3", "4", "5", "6", "7", "8", "9">>[d + 1]

\* String(n) of a non-negative integer
RECURSIVE Digits(_)
Digits(n) ==
  IF n < 10 THEN <<DigitChar(n)>>
  ELSE Digits(n \div 10) \o <<DigitChar(n % 10)>>

\* `vtp_recording_${sessionId}_${Date.now()}.webm`
FileName(id, t) ==
  <<"v", "t", "p", "_", "r", "e", "c", "o", "r", "d", "i", "n", "g", "_">>
    \o id \o <<"_">> \o Digits(t) \o <<".", "w", "e", "b", "m">>

\* os.tmpdir()
TmpDir == <<"/", "t", "m", "p">>

\* the segments of a path between its separators
RECURSIVE Segments(_, _)
Segments(chars, cur) ==
  IF chars = <<>> THEN <<cur>>
  ELSE IF Head(chars) = "/" THEN <<cur>> \o Segments(Tail(chars), <<>>)
       ELSE Segments(Tail(chars), Append(cur, Head(chars)))

\* path.normalize on the segments of an absolute path: empty and "."
\* segments go, ".." removes the segment before it
RECURSIVE Normalize(_, _)
Normalize(segs, out) ==
  IF segs = <<>> THEN out
  ELSE LET seg == Head(segs)
       IN IF seg = <<>> \/ seg = <<".">> THEN Normalize(Tail(segs), out)
          ELSE IF seg = <<".", ".">>
               THEN Normalize(Tail(segs),
                              IF out = <<>> THEN out
                              ELSE SubSeq(out, 1, Len(out) - 1))
               ELSE Normalize(Tail(segs), Append(out, seg))

\* path.join(a, b): a + '/' + b, normalized
PathJoin(a, b) == Normalize(Segments(a \o <<"/">> \o b, <<>>), <<>>)

outPath(id, t) == PathJoin(TmpDir, FileName(id, t))

\* endSession(id) at time t writes its artifact: fs.writeFile(outPath, buf)
\* creates the file or replaces the one that is there
EndSessionWrites(id, t) ==
  /\ Cardinality(DOMAIN written) < MaxArtifacts
  /\ written' = MapSet(written, outPath(id, t), id)
  /\ UNCHANGED <<svars, rvars, nreq, pushLog, snapshot, call, hvars, tvars>>

PathNext == \E id \in PathIds, t \in PathTimes : EndSessionWrites(id, t)

PathSpec == Init /\ [][PathNext]_vars

\* ------------------------------------------------- the live buffer alone
\* lengths of the sample chunks pushed, and sample rates they come with
\* (0: no rate, `sampleRate || liveSampleRate` keeps the tracked one)
ChunkLens == {1, 3, 7}
LiveRates == {0, 1, 2}

\* the samples of a new chunk: numbered on from the samples pushed so far
RECURSIVE PushedTotal(_)
PushedTotal(log) ==
  IF log = <<>> THEN 0 ELSE Head(log).len + PushedTotal(Tail(log))

NewSamples(len) == [i \in 1..len |-> PushedTotal(pushLog) + i]

\* `let total = 0; for (const c of liveChunks) total += c.length`
RECURSIVE TotalLength(_)
TotalLength(chunks) ==
  IF chunks = <<>> THEN 0 ELSE Len(Head(chunks)) + TotalLength(Tail(chunks))

\* `out.set(c, off); off += c.length` over the chunks, in order
RECURSIVE CopyChunks(_)
CopyChunks(chunks) ==
  IF chunks = <<>> THEN <<>> ELSE Head(chunks) \o CopyChunks(Tail(chunks))

\* new Float32Array(n) with the content set from offset 0: zero elsewhere
Float32ArrayOf(n, content) ==
  [i \in 1..n |-> IF i <= Len(content) THEN content[i] ELSE 0]

\* the last loop of concatLiveSamples: copy until the output is full
RECURSIVE CopyRemaining(_, _, _)
CopyRemaining(remaining, off, maxSamples) ==
  IF remaining = <<>> THEN <<>>
  ELSE LET c == Head(remaining)
       IN IF off + Len(c) > maxSamples
          THEN SubSeq(c, 1, maxSamples - off)
          ELSE c \o CopyRemaining(Tail(remaining), off + Len(c), maxSamples)

\* mutant: the oldest chunk that crosses the boundary is dropped whole
RECURSIVE DropToFitWholeChunks(_, _, _, _)
DropToFitWholeChunks(chunks, startIndex, toDrop, maxSamples) ==
  IF startIndex <= Len(chunks) /\ toDrop > 0
  THEN DropToFitWholeChunks(chunks, startIndex + 1,
                            toDrop - Len(chunks[startIndex]), maxSamples)
  ELSE Float32ArrayOf(maxSamples,
         CopyRemaining(SubSeq(chunks, startIndex, Len(chunks)), 0, maxSamples))

\* the while loop of concatLiveSamples: skip whole chunks, cut inside one
RECURSIVE DropToFit(_, _, _, _)
DropToFit(chunks, startIndex, toDrop, maxSamples) ==
  IF startIndex <= Len(chunks) /\ toDrop > 0
  THEN LET c == chunks[startIndex]
       IN IF Len(c) <= toDrop
          THEN DropToFit(chunks, startIndex + 1, toDrop - Len(c), maxSamples)
          ELSE LET keep == Len(c) - toDrop
               IN Float32ArrayOf(maxSamples,
                    SubSeq(c, Len(c) - keep + 1, Len(c))
                      \o CopyChunks(SubSeq(chunks, startIndex + 1, Len(chunks))))
  ELSE Float32ArrayOf(maxSamples,
         CopyRemaining(SubSeq(chunks, startIndex, Len(chunks)), 0, maxSamples))

concatLiveSamples(chunks, maxSamples) ==
  IF Len(chunks) = 0 THEN <<>>
  ELSE LET total == TotalLength(chunks)
       IN IF total <= maxSamples THEN CopyChunks(chunks)
          ELSE DropToFit(chunks, 1, total - maxSamples, maxSamples)

\* the rate tracked after a push that comes with `rate`
TrackedRate(rate) == IF rate # 0 THEN rate ELSE liveSampleRate

\* audioWorkletNode.port.onmessage: copy, track the rate, push, trim
WorkletMessage(len, rate) ==
  /\ Len(pushLog) < MaxPushes
  /\ liveSampleRate' = TrackedRate(rate)
  /\ liveChunks' = TrimLive(Append(liveChunks, NewSamples(len)), TrackedRate(rate))
  /\ pushLog' = Append(pushLog, [len |-> len, rate |-> TrackedRate(rate)])
  /\ UNCHANGED <<mediaRecorder, currentSessionId, clickPc, nev, slices,
                 pendingDecodes, audioCtxCapture, audioWorkletNode, capLoading,
                 fins, recStatus, transcriptEl, ipc>>
  /\ UNCHANGED <<svars, nreq, snapshot, call, written, hvars, tvars>>

\* ondataavailable after its decode: track the rate, push, trim, finally
DecodedPush(len, rate) ==
  /\ Len(pushLog) < MaxPushes
  /\ liveSampleRate' = TrackedRate(rate)
  /\ liveChunks' = TrimLive(Append(liveChunks, NewSamples(len)), TrackedRate(rate))
  /\ pendingDecodes' = Max(0, pendingDecodes - 1)
  /\ pushLog' = Append(pushLog, [len |-> len, rate |-> TrackedRate(rate)])
  /\ UNCHANGED <<mediaRecorder, currentSessionId, clickPc, nev, slices,
                 audioCtxCapture, audioWorkletNode, capLoading,
                 fins, recStatus, transcriptEl, ipc>>
  /\ UNCHANGED <<svars, nreq, snapshot, call, written, hvars, tvars>>

\* a call concatLiveSamples(maxSamples)
ConcatLiveSamplesCall(maxSamples) ==
  /\ snapshot' = concatLiveSamples(liveChunks, maxSamples)
  /\ UNCHANGED <<svars, rvars, nreq, pushLog, call, written, hvars, tvars>>

\* drawLiveWaveform: the snapshot it draws
DrawLive ==
  /\ snapshot' = concatLiveSamples(liveChunks,
                    Max(1024, MAX_LIVE_SECONDS * liveSampleRate))
  /\ UNCHANGED <<svars, rvars, nreq, pushLog, call, written, hvars, tvars>>

LiveNext ==
  \/ \E len \in ChunkLens, rate \in LiveRates : WorkletMessage(len, rate)
  \/ \E len \in ChunkLens, rate \in LiveRates : DecodedPush(len, rate)
  \/ \E m \in 0..(TotalLength(liveChunks) + 1) : ConcatLiveSamplesCall(m)
  \/ DrawLive

LiveSpec == Init /\ [][LiveNext]_vars

\* ------------------------------------------------- transcribeFile alone
\* the files given to transcribeFile
InputFiles == {"rec1.webm", "rec2.webm"}

\* `vtp_tmp_${Date.now()}.wav` in os.tmpdir()
TmpPath(t) == <<"vtp_tmp", t>>

\* the WAV that the transcoder run of call c makes of its input
WavOf(c) == <<"wav", tcalls[c].filePath>>

\* transcribeFile(filePath): runFfmpegTo16kMono names its output from the
\* clock and awaits the import of ffmpeg-static
TranscribeFileCalled(filePath, t) ==
  /\ Len(tcalls) < MaxTranscribes
  /\ tcalls' = Append(tcalls, [filePath |-> filePath, tmp |-> TmpPath(t),
                               pc |-> "ffmpeg", samples |-> "none"])
  /\ UNCHANGED <<tmpfs, svars, rvars, nreq, pushLog, snapshot, call, written, hvars>>

\* the transcoder of call c, run with -y, has written its output and exits
\* with code 0; or it fails before it opens its output, and transcribeFile
\* rejects outside its try (nothing is unlinked)
FfmpegExits(c, ok) ==
  /\ c \in DOMAIN tcalls
  /\ tcalls[c].pc = "ffmpeg"
  /\ IF ok
     THEN /\ tmpfs' = MapSet(tmpfs, tcalls[c].tmp, WavOf(c))
          /\ tcalls' = [tcalls EXCEPT ![c].pc = "readFile"]
     ELSE /\ tcalls' = [tcalls EXCEPT ![c].pc = "rejected"]
          /\ UNCHANGED tmpfs
  /\ UNCHANGED <<svars, rvars, nreq, pushLog, snapshot, call, written, hvars>>

\* decodeWavToFloat32(tmpPath): fs.readFile returns what the path holds
\* now, or rejects when the path is gone (then finally unlinks)
DecodeWavReads(c) ==
  /\ c \in DOMAIN tcalls
  /\ tcalls[c].pc = "readFile"
  /\ tcalls' = IF Has(tmpfs, tcalls[c].tmp)
               THEN [tcalls EXCEPT ![c].pc = "asr",
                                   ![c].samples = tmpfs[tcalls[c].tmp]]
               ELSE [tcalls EXCEPT ![c].pc = "unlink"]
  /\ UNCHANGED <<tmpfs, svars, rvars, nreq, pushLog, snapshot, call, written, hvars>>

\* the decode, the pipeline and the recognizer settle: finally
AsrSettles(c) ==
  /\ c \in DOMAIN tcalls
  /\ tcalls[c].pc = "asr"
  /\ tcalls' = [tcalls EXCEPT ![c].pc = "unlink"]
  /\ UNCHANGED <<tmpfs, svars, rvars, nreq, pushLog, snapshot, call, written, hvars>>

\* `await fs.unlink(tmpPath).catch(() => {})`
UnlinkTmp(c) ==
  /\ c \in DOMAIN tcalls
  /\ tcalls[c].pc = "unlink"
  /\ tmpfs' = MapDelete(tmpfs, tcalls[c].tmp)
  /\ tcalls' = [tcalls EXCEPT ![c].pc = "settled"]
  /\ UNCHANGED <<svars, rvars, nreq, pushLog, snapshot, call, written, hvars>>

TmpNext ==
  \/ \E filePath \in InputFiles, t \in Times : TranscribeFileCalled(filePath, t)
  \/ \E c \in 1..MaxTranscribes, ok \in BOOLEAN : FfmpegExits(c, ok)
  \/ \E c \in 1..MaxTranscribes : DecodeWavReads(c)
  \/ \E c \in 1..MaxTranscribes : AsrSettles(c)
  \/ \E c \in 1..MaxTranscribes : UnlinkTmp(c)

TmpSpec == Init /\ [][TmpNext]_vars

\* ------------------------------------- the recorder with the capture worklet
\* a frame the worklet posts: three samples at the rate of the capture context
WorkletFrame == [len |-> 3, rate |-> 2]

\* a chunk of the live buffer that a worklet message pushed
FromWorklet(chunk) == Len(chunk) = WorkletFrame.len

\* the worklet posts a frame while its node is connected and its port open
WorkletPosts ==
  /\ audioWorkletNode
  /\ WorkletMessage(WorkletFrame.len, WorkletFrame.rate)

CaptureNext == PipeNext \/ WorkletPosts

\* a run long enough for a second recording to start
CaptureInit == SInit /\ RInit /\ LInit /\ nreq = 0 /\ budget = MaxEvents + 1

CaptureSpec == CaptureInit /\ [][CaptureNext]_vars

\* ------------------------------------------------------------ properties
RECURSIVE SumLen(_)
SumLen(chunks) ==
  IF chunks = <<>> THEN 0 ELSE Len(Head(chunks)) + SumLen(Tail(chunks))

\* bytes is made of the chunks, one after the other in the order of the
\* sequence: chunk i starts where the chunks before it end
IsChunksInOrder(bytes, chunks) ==
  /\ Len(bytes) = SumLen(chunks)
  /\ \A i \in DOMAIN chunks : \A o \in DOMAIN chunks[i] :
       bytes[SumLen(SubSeq(chunks, 1, i - 1)) + o] = chunks[i][o]

\* the step in which call k's fs.writeFile resolves
WriteStep(k) ==
  /\ k \in DOMAIN ends
  /\ ends[k].pc = "write"
  /\ Len(ends') = Len(ends)
  /\ ends'[k].pc = "transcribe"

\* an endSession(id) is between its Buffer.concat and its fs.writeFile result
Finalizing(id) == \E k \in DOMAIN ends : ends[k].id = id /\ ends[k].pc = "write"

\* id is registered and no endSession(id) has begun
Recording(id) == Has(sessions, id) /\ ~Finalizing(id)

\* id was never started, or was ended and not started again
NotStarted(id) == nstart[id] = 0 \/ ended[id]

NotifiedCount(id) == Cardinality({i \in DOMAIN sent : sent[i].sessionId = id})

\* C1: the artifact endSession(id) writes is the concatenation, in push
\* order, of the chunks pushed between startSession(id) and the call of
\* endSession(id); its length is the sum of their lengths.
C1_ArtifactIsConcatInPushOrder ==
  [][\A k \in DOMAIN ends :
       WriteStep(k) =>
         /\ Has(files', ends[k].path)
         /\ IsChunksInOrder(files'[ends[k].path], ends[k].snap)]_vars

\* an artifact made of the chunk <<2, 2>> followed by the chunk <<1>>
C1_Witness == \E p \in DOMAIN files : files[p] = <<2, 2, 1>>

\* C2 (as claimed): startSession(id) on an id that is Recording fails and
\* leaves the session and its chunks unchanged.
C2_StartWhileRecordingFails ==
  [][\A id \in SessionIds :
       (OnStreamStart(id) /\ Recording(id)) =>
         (~lastResp'.ok /\ sessions' = sessions)]_vars

\* C3: pushChunk(id, c) fails with "session not started" and leaves the
\* registry unchanged when id was never started or was ended; when id is
\* registered it appends exactly c at the end of the log of id and leaves
\* the other sessions alone.
C3_PushChunkContract ==
  [][\A id \in SessionIds, c \in ChunkSet :
       OnStreamChunk(id, c) =>
         /\ NotStarted(id) =>
              (lastResp' = RespErr("chunk", id, ErrNoSession) /\ sessions' = sessions)
         /\ Has(sessions, id) =>
              /\ lastResp' = RespOk("chunk", id)
              /\ DOMAIN sessions' = DOMAIN sessions
              /\ sessions'[id] = Append(sessions[id], c)
              /\ \A o \in DOMAIN sessions \ {id} : sessions'[o] = sessions[o]
         /\ ~Has(sessions, id) => ~lastResp'.ok]_vars

\* a push on an ended id was rejected
C3_Witness ==
  \E id \in SessionIds :
    lastResp = RespErr("chunk", id, ErrNoSession) /\ ended[id]

\* C4: once an endSession(id) has passed its artifact write, id is not in
\* the registry until the next startSession(id), and an endSession(id) on
\* an id that was never started, or was ended and not started again, fails
\* with "session not started" and starts no write.
C4_EndedSessionIsGone ==
  /\ [](\A id \in SessionIds : NotStarted(id) => ~Has(sessions, id))
  /\ [][\A id \in SessionIds, t \in Times :
          ((\E caller \in 0..MaxStops : OnStreamEnd(id, t, caller)) /\ NotStarted(id)) =>
            (lastResp' = RespErr("end", id, ErrNoSession) /\ ends' = ends)]_vars

\* a second endSession on an ended id was rejected
C4_Witness ==
  \E id \in SessionIds :
    lastResp = RespErr("end", id, ErrNoSession) /\ ended[id]

\* C5 (as claimed): once endSession(id) has begun, a pushChunk(id) is
\* rejected, and every chunk the session accepted is in the artifact.
C5_LogImmutableOnceEnding ==
  [][/\ \A id \in SessionIds, c \in ChunkSet :
          (OnStreamChunk(id, c) /\ Finalizing(id) /\ nstart[id] = 1) =>
            ~lastResp'.ok
     /\ \A k \in DOMAIN ends :
          (WriteStep(k) /\ nstart[ends[k].id] = 1) =>
            IsChunksInOrder(files'[ends[k].path], accepted[ends[k].id])]_vars

\* C8 (as claimed): at most one 'transcription-result' per session id (for
\* an id that was started once).
C8_NotifiedAtMostOnce ==
  \A id \in SessionIds : nstart[id] <= 1 => NotifiedCount(id) <= 1

\* C9: when transcribeFile fails, the handler answers {ok: false, error}
\* with no text and sends no notification, the session the call ended stays
\* out of the registry unless it is started again, and the call invoked
\* transcribeFile once and is over (no retry).
C9_TranscribeFailureIsTerminal ==
  /\ [](\A k \in DOMAIN ends : ends[k].invoked <= 1)
  /\ [][\A k \in DOMAIN ends :
          OnTranscribeFail(k) =>
            /\ lastResp' = RespErr("end", ends[k].id, ErrTranscribe)
            /\ sent' = sent
            /\ ends[k].invoked = 1
            /\ ends' = RemoveAt(ends, k)
            /\ ended[ends[k].id] => ~Has(sessions', ends[k].id)]_vars

\* a transcription failure was answered for an id that is out of the registry
C9_Witness ==
  \E id \in SessionIds :
    /\ lastResp = RespErr("end", id, ErrTranscribe)
    /\ ended[id]
    /\ ~Has(sessions, id)

\* C10 (as claimed): when the artifact write fails, the caller gets an error
\* and the session is no longer in the registry.
C10_WriteFailureIsTerminal ==
  [][\A k \in DOMAIN ends :
       OnWriteFail(k) =>
         (~lastResp'.ok /\ ~Has(sessions', ends[k].id))]_vars

\* slice numbers of a log or of an artifact made of Slice(n) payloads
InEmissionOrder(log) ==
  \A i, j \in DOMAIN log : i < j => Head(log[i]) < Head(log[j])

BytesInEmissionOrder(bytes) ==
  \A i, j \in DOMAIN bytes : i < j => bytes[i] <= bytes[j]

\* C6 (as claimed): a slice the recorder emitted before another one precedes
\* it in the encoded log of the session and in the artifact.
C6_SlicesKeepEmissionOrder ==
  /\ \A id \in DOMAIN sessions : InEmissionOrder(sessions[id])
  /\ \A p \in DOMAIN files : BytesInEmissionOrder(files[p])

\* C7: every onstop handler that has begun gets an answer of endStream (a
\* text or an error message) and ends, setting the status to Idle, whatever
\* the decodes do.
C7_FinalizeTerminates ==
  \A j \in 1..MaxStops :
    (Len(fins) >= j /\ fins[j].pc # "done") ~>
      (/\ Len(fins) >= j
       /\ fins[j].pc = "done"
       /\ fins[j].resp.op = "end"
       /\ (fins[j].resp.ok \/ fins[j].resp.error # "")
       /\ recStatus = "Idle")

\* a finalize that ended on the timeout while a decode was still pending
C7_Witness ==
  \E j \in DOMAIN fins :
    /\ fins[j].pc = "done"
    /\ fins[j].waited = WaitTicks
    /\ pendingDecodes > 0
    /\ recStatus = "Idle"

\* ------------------------------------------------- live buffer properties
Min(a, b) == IF a <= b THEN a ELSE b

\* the samples of the chunks, oldest chunk first
RECURSIVE Flat(_)
Flat(chunks) ==
  IF chunks = <<>> THEN <<>>
  ELSE Flat(SubSeq(chunks, 1, Len(chunks) - 1)) \o chunks[Len(chunks)]

LastN(seq, n) == SubSeq(seq, Len(seq) - n + 1, Len(seq))

\* the last n of the samples 1, 2, ..., total pushed so far
LastPushed(total, n) == [i \in 1..n |-> total - n + i]

\* C11 (as claimed): after every push the live buffer holds at most
\* MAX_LIVE_SECONDS x liveSampleRate samples, for the rate tracked after the
\* push, and what it holds is the newest samples in the order pushed.
C11_LiveBufferBounded ==
  /\ SumLen(liveChunks) <= MAX_LIVE_SECONDS * liveSampleRate
  /\ Flat(liveChunks) = LastPushed(PushedTotal(pushLog), SumLen(liveChunks))

\* every push so far came with the same tracked rate
OneRate ==
  /\ pushLog # <<>>
  /\ \A i \in DOMAIN pushLog : pushLog[i].rate = liveSampleRate

\* C12 (as claimed): after pushes of T samples at one rate, with
\* M = MAX_LIVE_SECONDS x rate, concatLiveSamples(M) is the last min(T, M)
\* samples pushed.
C12_SnapshotIsExactWindow ==
  OneRate =>
    LET M == MAX_LIVE_SECONDS * liveSampleRate
        T == PushedTotal(pushLog)
    IN concatLiveSamples(liveChunks, M) = LastPushed(T, Min(T, M))

\* C20: for every content of the live buffer and every maxSamples >= 0,
\* concatLiveSamples(maxSamples) is the last min(total, maxSamples) samples
\* of the chunks taken oldest first, cut inside a chunk where needed, and a
\* call leaves liveChunks as it was.
C20_SnapshotIsPure ==
  /\ [](\A m \in 0..(SumLen(liveChunks) + 1) :
          concatLiveSamples(liveChunks, m)
            = LastN(Flat(liveChunks), Min(SumLen(liveChunks), m)))
  /\ [][\A m \in 0..(SumLen(liveChunks) + 1) :
          ConcatLiveSamplesCall(m) =>
            /\ liveChunks' = liveChunks
            /\ snapshot' = LastN(Flat(liveChunks), Min(SumLen(liveChunks), m))]_vars

\* a snapshot of the buffer as it is that starts inside a chunk
C20_Witness ==
  /\ Len(snapshot) > 0
  /\ Len(snapshot) < SumLen(liveChunks)
  /\ snapshot = LastN(Flat(liveChunks), Len(snapshot))
  /\ \A k \in DOMAIN liveChunks : liveChunks[k][1] # snapshot[1]

\* C13 (as claimed): a stream-start on an id that is already started, and a
\* stream-chunk or stream-end on an id that is not in the registry, are
\* answered {ok: false, error}, never ok.
C13_LifecycleViolationsAreErrors ==
  [][\A id \in SessionIds :
       /\ (OnStreamStart(id) /\ Has(sessions, id)) => ~lastResp'.ok
       /\ \A c \in ChunkSet :
            (OnStreamChunk(id, c) /\ ~Has(sessions, id)) =>
              lastResp' = RespErr("chunk", id, ErrNoSession)
       /\ \A t \in Times :
            ((\E caller \in 0..MaxStops : OnStreamEnd(id, t, caller))
               /\ ~Has(sessions, id)) =>
              lastResp' = RespErr("end", id, ErrNoSession)]_vars

\* C17 (as claimed): the artifact paths of two endSession calls on
\* different session ids differ, whatever the timestamps, so no artifact is
\* replaced by the artifact of another session.
C17_PathsDoNotCollide ==
  [][\A id \in PathIds, t \in PathTimes :
       (EndSessionWrites(id, t) /\ outPath(id, t) \in DOMAIN written) =>
         written[outPath(id, t)] = id]_vars

\* ---------------------------------------------- pure function properties
\* L is the least integer with L >= a / b
IsCeilOf(L, a, b) == L * b >= a /\ (L - 1) * b < a

\* C14 (as claimed): resampled r1 -> r2 and back, the length is within one
\* sample of the length n of the input.
C14_RoundTripWithinOne ==
  call.fn = "roundtrip" =>
    (Len(call.out) - call.n <= 1 /\ call.n - Len(call.out) <= 1)

\* C14 (amended): the round-trip length L is at least n and less than
\* n + 1 + r1 / r2; so it is n or n + 1 when r1 <= r2.
C14_RoundTripLengthBound ==
  call.fn = "roundtrip" =>
    /\ call.n <= Len(call.out)
    /\ (Len(call.out) - call.n - 1) * call.r2 < call.r1
    /\ call.r1 <= call.r2 => Len(call.out) <= call.n + 1
    /\ call.r1 = call.r2 => Len(call.out) = call.n

\* a round trip that first lowers the rate and comes back two samples longer
C14_Witness ==
  /\ call.fn = "roundtrip"
  /\ call.r1 > call.r2
  /\ Len(call.out) = call.n + 2

\* C15: resampleFloat32Array returns its input when the rates are equal,
\* and otherwise an array of exactly ceil(len x dstRate / srcRate) samples;
\* 16000 samples at 44100 Hz give 5805 samples at 16000 Hz.
C15_ResampleLength ==
  /\ call.fn = "resample" =>
       /\ call.r1 = call.r2 => call.out = call.input
       /\ call.r1 # call.r2 =>
            IsCeilOf(Len(call.out), Len(call.input) * call.r2, call.r1)
  /\ ResampledLength(16000, 44100, 16000) = 5805

\* a resampling whose length was rounded up
C15_Witness ==
  /\ call.fn = "resample"
  /\ call.r1 = 441
  /\ call.r2 = 160
  /\ Len(call.input) = 4
  /\ Len(call.out) = 2

\* the sum of the values of the channels at frame i
RECURSIVE ChannelSum(_, _)
ChannelSum(channelData, i) ==
  IF channelData = <<>> THEN 0
  ELSE ChannelSum(SubSeq(channelData, 1, Len(channelData) - 1), i)
         + channelData[Len(channelData)][i].num

\* out is, frame by frame, the arithmetic mean of C channels of N frames
IsMeanOf(out, channelData, N) ==
  LET C == Len(channelData)
  IN /\ (C = 0 \/ N = 0) => out = <<>>
     /\ C >= 1 =>
          /\ Len(out) = N
          /\ \A i \in 1..N :
               /\ out[i].den > 0
               /\ out[i].num * C = ChannelSum(channelData, i) * out[i].den
               /\ (\A c \in 1..C : channelData[c] = channelData[1]) =>
                    out[i].num = channelData[1][i].num * out[i].den

\* C16: for C >= 1 channels of N frames mixdown and mixdownChannels return
\* N frames, each the arithmetic mean of the channels at that frame (so C
\* identical channels give their common value); no channel or no frame
\* gives an empty array.
C16_MixdownIsMean ==
  call.fn = "mixdown" =>
    /\ IsMeanOf(call.out, call.channelData, call.length)
    /\ IsMeanOf(call.outChannels, call.channelData, call.length)

\* three channels that differ, mixed to a mean that is not a whole number
C16_Witness ==
  /\ call.fn = "mixdown"
  /\ Len(call.channelData) = 3
  /\ call.length = 2
  /\ call.out[1] = Frac(5, 3)
  /\ call.outChannels[1] = Frac(5, 3)

\* -------------------------------------------------- finalize properties
\* the stream-end request of finalize j is on its way to the main process
EndRequested(q, j) == \E i \in DOMAIN q : q[i].op = "end" /\ q[i].n = j

\* finalize j is not past its grace window
InGrace(j) ==
  j \in DOMAIN fins /\ fins[j].pc \in {"endStream", "answered", "grace"}

\* C18 (as claimed): endStream is called only after the grace window and the
\* bounded wait for pendingDecodes, so a slice that is delivered before the
\* grace window is over is pushed to a session that is Recording.
C18_EndAfterGraceAndWait ==
  [][/\ \A j \in 1..MaxStops :
          (~EndRequested(ipc, j) /\ EndRequested(ipc', j)) =>
            (j \in DOMAIN fins /\ fins[j].pc = "wait" /\ ~WaitGoesOn(j))
     /\ (IpcStreamChunk /\ \E j \in 1..MaxStops : InGrace(j)) =>
          (Recording(Head(ipc).id) /\ lastResp'.ok)]_vars

\* --------------------------------------------------- registry properties
\* another endSession of the same id, for the same startSession, is under way
OtherEndOfSameStart(id) ==
  \E k \in DOMAIN ends : ends[k].id = id /\ ends[k].gen = nstart[id]

\* C19 (as claimed): of two endSession(id) for one startSession(id) only the
\* first goes on to an artifact and a transcript, the other fails with
\* "session not started"; and the cleanup of an endSession does not remove a
\* session that a later startSession(id) created.
C19_RegistrySerializedPerId ==
  [][/\ \A id \in SessionIds, t \in Times :
          ((\E caller \in 0..MaxStops : OnStreamEnd(id, t, caller))
             /\ OtherEndOfSameStart(id)) =>
            (lastResp' = RespErr("end", id, ErrNoSession) /\ ends' = ends)
     /\ \A k \in DOMAIN ends :
          (WriteStep(k) /\ ends[k].gen < nstart[ends[k].id]
             /\ Has(sessions, ends[k].id)) =>
            Has(sessions', ends[k].id)]_vars

\* ------------------------------------------- capture strategy properties
\* the handler of slice n is past its call of sendStreamChunk
PastSend(n) == n \in DOMAIN slices /\ slices[n] # "convert"

\* C21: when the worklet strategy is active as the handler of a slice goes on
\* after its send, the slice is not decoded for the live view (the handler
\* ends, pendingDecodes and liveChunks are untouched); and whatever the
\* strategy, every slice whose handler got its bytes has been given to
\* sendStreamChunk, before the strategy is looked at.
C21_WorkletSkipsDecodeNotSend ==
  /\ [](\A n \in DOMAIN slices :
          /\ PastSend(n) => n \in DOMAIN sentTo
          /\ slices[n] \in {"decode", "done"} =>
               \A i \in DOMAIN ipc : ~(ipc[i].op = "chunk" /\ ipc[i].n = n))
  /\ [][\A n \in DOMAIN slices :
          (SliceSent(n) /\ audioWorkletNode) =>
            /\ slices'[n] = "done"
            /\ pendingDecodes' = pendingDecodes
            /\ liveChunks' = liveChunks
            /\ sentTo' = sentTo]_vars

\* with the worklet active a slice was handled to its end: it is in the log
\* of its session, and nothing was decoded into the live buffer
C21_Witness ==
  /\ audioWorkletNode
  /\ pendingDecodes = 0
  /\ liveChunks = <<>>
  /\ \E n \in DOMAIN slices :
       /\ slices[n] = "done"
       /\ sentTo[n] \in DOMAIN sessions
       /\ sessions[sentTo[n]] = <<Slice(n)>>

\* C22 (as claimed): the live buffer has one writer: no decode of a fallback
\* slice pushes its samples after a worklet message has pushed a frame.
C22_LiveBufferSingleWriter ==
  \A i, j \in DOMAIN liveChunks :
    (i < j /\ FromWorklet(liveChunks[i])) => FromWorklet(liveChunks[j])

\* the chunk request of slice n has been handled by the main process
SendHandled(n) ==
  /\ n \in DOMAIN sentTo
  /\ \A i \in DOMAIN ipc : ~(ipc[i].op = "chunk" /\ ipc[i].n = n)

\* C23: a decode failure of a slice leaves the live buffer and its rate as
\* they are, releases the pending-decode count, comes after the send of the
\* slice has been handled, and touches neither the recorder, the session
\* id, the handlers of the other slices, the requests nor the registry.
C23_DecodeFailureIsIsolated ==
  [][\A n \in DOMAIN slices :
       SliceDecodeFailed(n) =>
         /\ liveChunks' = liveChunks
         /\ liveSampleRate' = liveSampleRate
         /\ pendingDecodes >= 1
         /\ pendingDecodes' = pendingDecodes - 1
         /\ SendHandled(n)
         /\ slices' = [slices EXCEPT ![n] = "done"]
         /\ mediaRecorder' = mediaRecorder
         /\ currentSessionId' = currentSessionId
         /\ ipc' = ipc
         /\ fins' = fins
         /\ sessions' = sessions
         /\ ends' = ends]_vars

\* the decode of slice 1 failed and slice 2, emitted later, was decoded into
\* the live buffer; both slices are in the log of the session, which records
C23_Witness ==
  /\ slices = <<"done", "done">>
  /\ ~audioWorkletNode
  /\ liveChunks = <<Decoded(2)>>
  /\ pendingDecodes = 0
  /\ mediaRecorder = "recording"
  /\ currentSessionId \in DOMAIN sessions
  /\ sessions[currentSessionId] = <<Slice(1), Slice(2)>>

\* the decodes that have started and not settled
InFlightDecodes == {n \in DOMAIN slices : slices[n] = "decode"}

\* C27: pendingDecodes is the number of decodes of fallback slices that have
\* started and not settled; it is never negative and is zero when no decode
\* is in flight.
C27_PendingDecodesCountsInFlight ==
  /\ pendingDecodes >= 0
  /\ pendingDecodes = Cardinality(InFlightDecodes)

\* two decodes were in flight; one has failed, the other is still pending
C27_Witness ==
  /\ pendingDecodes = 1
  /\ slices \in {<<"done", "decode">>, <<"decode", "done">>}
  /\ liveChunks = <<>>
  /\ ~audioWorkletNode

\* the setup of the capture fails: addModule rejects, or what follows it
\* throws (also because the context was closed and dropped meanwhile)
CaptureFails(ok) == CaptureLoaded(ok) /\ ~(ok /\ audioCtxCapture)

\* C24: a failure of the capture setup leaves no worklet node and no capture
\* context, and leaves alone the recorder, the session id, the slice
\* handlers and their sends, the finalizations, the requests on their way
\* and the whole main process; the live view keeps what it has.
C24_CaptureFailureDegradesLiveViewOnly ==
  [][\A ok \in BOOLEAN :
       CaptureFails(ok) =>
         /\ ~audioWorkletNode' /\ ~audioCtxCapture'
         /\ mediaRecorder' = mediaRecorder
         /\ currentSessionId' = currentSessionId
         /\ slices' = slices
         /\ sentTo' = sentTo
         /\ ipc' = ipc
         /\ fins' = fins
         /\ pendingDecodes' = pendingDecodes
         /\ liveChunks' = liveChunks
         /\ svars' = svars]_vars

\* the capture setup failed during a recording; the slice emitted afterwards
\* was accepted by the session and is the artifact that endSession wrote
C24_Witness ==
  /\ ~audioCtxCapture /\ ~audioWorkletNode /\ capLoading = 0
  /\ Len(fins) = 1 /\ fins[1].pc # "done"
  /\ slices = <<"decode">>
  /\ \E pth \in DOMAIN files : files[pth] = Slice(1)

\* ------------------------------------------ properties of two recordings
\* the recording whose onstart ran last (the recorder made by a click that
\* still awaits startStream has not started)
CurrentRecording ==
  IF clickPc \in {"startStream", "started"} THEN Len(recs) - 1 ELSE Len(recs)

\* the slice whose decode pushed the chunk
SliceOf(chunk) == chunk[1]

\* C25 (as claimed): onstart leaves the live buffer empty, and every chunk
\* of decoded samples the buffer holds afterwards comes from a slice of the
\* recording that is current.
C25_LiveBufferHoldsCurrentRecording ==
  /\ [][RecorderStarted => liveChunks' = <<>>]_vars
  /\ [](\A i \in DOMAIN liveChunks :
          ~FromWorklet(liveChunks[i]) =>
            sliceRec[SliceOf(liveChunks[i])] = CurrentRecording)

\* C28 (as claimed): the id given to sendStreamChunk with a slice is the
\* session id that was made for the recording that emitted the slice.
C28_SliceIsSentToItsOwnSession ==
  \A n \in DOMAIN sentTo : sentTo[n] = recs[sliceRec[n]]

\* ------------------------------------------------- stream-end properties
\* C26: when endSession(id) succeeds with text t, stream-end answers
\* {ok: true, text: t} and, when the notification can be delivered, sends
\* (id, t) with the same text; when it cannot, the answer is the same and
\* nothing is sent; when endSession fails (no session, write, transcription)
\* the answer is {ok: false, error} and the call sends no notification.
C26_EndResultPropagation ==
  [][/\ \A k \in DOMAIN ends, t \in Texts, win \in BOOLEAN :
          OnTranscribeOk(k, t, win) =>
            /\ lastResp' = RespText("end", ends[k].id, t)
            /\ win => sent' = Append(sent, [sessionId |-> ends[k].id, text |-> t])
            /\ ~win => sent' = sent
     /\ \A k \in DOMAIN ends :
          (OnTranscribeFail(k) \/ OnWriteFail(k)) =>
            /\ lastResp'.op = "end" /\ lastResp'.id = ends[k].id
            /\ ~lastResp'.ok /\ lastResp'.error # "" /\ lastResp'.text = ""
            /\ sent' = sent
     /\ \A id \in SessionIds, t \in Times :
          (OnStreamEnd(id, t, 0) /\ ~Has(sessions, id)) =>
            /\ ~lastResp'.ok /\ lastResp'.error # ""
            /\ sent' = sent]_vars

\* an endSession succeeded and was answered with its text although no
\* notification could be delivered for the id
C26_Witness ==
  \E id \in SessionIds, t \in Texts :
    /\ lastResp = RespText("end", id, t)
    /\ NotifiedCount(id) = 0
    /\ ended[id]

\* the registry entries of the ids other than id are what they were
OthersUntouched(id) ==
  \A o \in SessionIds \ {id} :
    /\ Has(sessions', o) = Has(sessions, o)
    /\ Has(sessions, o) => sessions'[o] = sessions[o]

\* C29: startSession, pushChunk and endSession on an id (the call, its
\* artifact write and its transcription) leave the registry entry and the
\* log of every other id unchanged; the artifact of an endSession is made of
\* the chunks that were pushed to its own id.
C29_SessionsAreIsolated ==
  [][/\ \A id \in SessionIds :
          (\/ OnStreamStart(id)
           \/ \E c \in ChunkSet : OnStreamChunk(id, c)
           \/ \E t \in Times : OnStreamEnd(id, t, 0)) => OthersUntouched(id)
     /\ \A k \in DOMAIN ends :
          (OnWriteOk(k) \/ OnWriteFail(k) \/ OnTranscribeFail(k)
             \/ \E t \in Texts, win \in BOOLEAN : OnTranscribeOk(k, t, win)) =>
            OthersUntouched(ends[k].id)
     /\ \A k \in DOMAIN ends :
          OnWriteOk(k) =>
            IsChunksInOrder(files'[ends[k].path], ends[k].snap)]_vars

\* two sessions recorded at the same time with pushes to both: the artifact
\* of "a" holds the chunk pushed to "a", the log of "b" the chunk pushed to "b"
C29_Witness ==
  /\ \E t \in Times : Has(files, OutPath("a", t)) /\ files[OutPath("a", t)] = <<1>>
  /\ Has(sessions, "b")
  /\ sessions["b"] = <<<<2, 2>>>>
  /\ nstart = [id \in SessionIds |-> 1]

\* ------------------------------------------------ transcribe properties
\* C30 (as claimed): of overlapping transcribeFile calls each decodes the
\* WAV that its own transcoder run produced: while a call waits to read its
\* temporary file the file holds that WAV, and what it read is that WAV.
C30_TmpFilesDoNotInterfere ==
  \A c \in DOMAIN tcalls :
    /\ tcalls[c].pc = "readFile" =>
         (Has(tmpfs, tcalls[c].tmp) /\ tmpfs[tcalls[c].tmp] = WavOf(c))
    /\ tcalls[c].pc = "asr" => tcalls[c].samples = WavOf(c)
    /\ tcalls[c].pc \in {"unlink", "settled"} => tcalls[c].samples # "none"

====
